---- MODULE Spec2Model ----
(***************************************************************************)
(* Model of src/python/data_fetcher.py (JapaneseStockAnalyzer).            *)
(*                                                                         *)
(* One invocation of get_stock_data is a sequential process whose steps    *)
(* are the calls it makes to the market-data provider (stock.info,         *)
(* stock.history) and to time.sleep.  The provider answers each call       *)
(* nondeterministically: it returns data, returns an empty series, or      *)
(* raises.  Everything the routine does between two such calls is          *)
(* deterministic and belongs to the action of the call that precedes it.   *)
(*                                                                         *)
(* Numbers are fixed point.  Provider values (closes, ratios, EPS, book    *)
(* value) are integers in thousandths; provider fractions (return on       *)
(* equity, dividend yield) are integers in units of 10^-5; every value     *)
(* produced by round(x, 2) is an integer in hundredths.                    *)
(***************************************************************************)
EXTENDS Integers, Sequences, FiniteSets

VARIABLES stock_code, pc, attempt, period_idx, stock_info, hist_data,
          retry_status, retry_exc, log, price_data, financial_data,
          result, error

vars == <<stock_code, pc, attempt, period_idx, stock_info, hist_data,
          retry_status, retry_exc, log, price_data, financial_data,
          result, error>>

----------------------------------------------------------------------------
(* Bounds of the model *)

\* longest price series the provider returns
MaxBars == 2

\* random.uniform(0, 1) is drawn from {0, 1/JitterSteps, ..., 1}
JitterSteps == 2

----------------------------------------------------------------------------
(* Program constants and values *)

\* self.max_retries
max_retries == 3

\* self.base_delay (seconds)
base_delay == 2

\* periods of _get_historical_data_fallback, in list order
periods_mut_reversed == <<"5d", "1mo", "3mo", "6mo">>

periods == <<"6mo", "3mo", "1mo", "5d">>

\* Python's None, kept apart from every number the provider supplies
None == -1000000

\* the empty dict {}
EmptyInfo == <<>>

\* pd.DataFrame(): the empty series
EmptyFrame == <<>>

\* dict.get(key, default)
Get(info, key, default) ==
    IF key \in DOMAIN info THEN info[key] ELSE default

\* Python truthiness of a number or None
Truthy(v) == v # None /\ v # 0

\* round-half-even of the rational n / d, d > 0
RoundHalfEven(n, d) ==
    LET q == n \div d
        r == n % d
    IN  IF 2 * r < d THEN q
        ELSE IF 2 * r > d THEN q + 1
        ELSE IF q % 2 = 0 THEN q ELSE q + 1

\* round(n / d, 2), in hundredths
Round2(n, d) == RoundHalfEven(100 * n, d)

\* 2 ** n
RECURSIVE Pow2(_)
Pow2(n) == IF n = 0 THEN 1 ELSE 2 * Pow2(n - 1)

----------------------------------------------------------------------------
(* _process_price_data: hist is a sequence of bars [Close, Volume], Close   *)
(* in thousandths; the snapshot is in hundredths.                           *)

_process_price_data_mut_latest(hist) ==
    IF hist = EmptyFrame
    THEN [current_price |-> 0, price_change |-> 0,
          change_percent |-> 0, volume |-> 0]
    ELSE LET latest_data == hist[Len(hist)]
             previous_data == latest_data
             current_price == Round2(latest_data.Close, 1000)
             previous_price == Round2(previous_data.Close, 1000)
             price_change == Round2(current_price - previous_price, 100)
             change_percent ==
                 IF previous_price > 0
                 THEN Round2(price_change * 100, previous_price)
                 ELSE 0
         IN  [current_price |-> current_price, price_change |-> price_change,
              change_percent |-> change_percent,
              volume |-> latest_data.Volume]

_process_price_data(hist) ==
    IF hist = EmptyFrame
    THEN [current_price |-> 0, price_change |-> 0,
          change_percent |-> 0, volume |-> 0]
    ELSE LET latest_data == hist[Len(hist)]
             previous_data == IF Len(hist) >= 2 THEN hist[Len(hist) - 1]
                              ELSE latest_data
             current_price == Round2(latest_data.Close, 1000)
             previous_price == Round2(previous_data.Close, 1000)
             price_change == Round2(current_price - previous_price, 100)
             change_percent ==
                 IF previous_price > 0
                 THEN Round2(price_change * 100, previous_price)
                 ELSE 0
         IN  [current_price |-> current_price, price_change |-> price_change,
              change_percent |-> change_percent,
              volume |-> latest_data.Volume]

----------------------------------------------------------------------------
(* _calculate_financial_metrics_safe: info maps field names to numbers or   *)
(* None (ratios, EPS and book value in thousandths, fractions in 10^-5),    *)
(* current_price is in hundredths; the four metrics are in hundredths.      *)
(* With numeric or None fields no statement of the body raises, so the      *)
(* except clauses are not entered.                                          *)

\* lines 171-182 (per) and 185-196 (pbr): direct ratio, else price / denominator
RatioMetric_mut_derived_first(info, direct_key, denom_key, current_price) ==
    LET direct == Get(info, direct_key, 0)
        denom == Get(info, denom_key, 0)
    IN  IF Truthy(denom) /\ denom > 0 /\ current_price > 0
        THEN Round2(10 * current_price, denom)
        ELSE IF Truthy(direct) /\ direct > 0
             THEN Round2(direct, 1000)
             ELSE 0

RatioMetric(info, direct_key, denom_key, current_price) ==
    LET direct == Get(info, direct_key, 0)
    IN  IF Truthy(direct) /\ direct > 0
        THEN Round2(direct, 1000)
        ELSE LET denom == Get(info, denom_key, 0)
             IN  IF Truthy(denom) /\ denom > 0 /\ current_price > 0
                 THEN Round2(10 * current_price, denom)
                 ELSE 0

\* lines 199-205 (roe) and 208-214 (dividend): fraction * 100
PercentMetric_mut_positive_only(info, key) ==
    LET fraction == Get(info, key, 0)
    IN  IF Truthy(fraction) /\ fraction > 0 THEN Round2(fraction, 1000) ELSE 0

PercentMetric(info, key) ==
    LET fraction == Get(info, key, 0)
    IN  IF Truthy(fraction) THEN Round2(fraction, 1000) ELSE 0

_calculate_financial_metrics_safe(info, current_price) ==
    [per      |-> RatioMetric(info, "trailingPE", "trailingEps", current_price),
     pbr      |-> RatioMetric(info, "priceToBook", "bookValue", current_price),
     roe      |-> PercentMetric(info, "returnOnEquity"),
     dividend |-> PercentMetric(info, "dividendYield")]

----------------------------------------------------------------------------
(* Exceptions are records [type, msg]; msg is the sequence of the parts of  *)
(* the message string, so that "msg contains the code" is membership.       *)

\* the ValueError of line 43
NoDataError(code) ==
    [type |-> "ValueError", msg |-> <<"code ", code, " data not found">>]

\* the Exception of line 75, wrapping str(e)
WrapError(code, e) ==
    [type |-> "Exception",
     msg  |-> <<"code ", code, " data fetch failed: ">> \o e.msg]

\* an exception raised by a provider call
ProviderError(id) == [type |-> "ProviderError", msg |-> <<id>>]

\* get_stock_data from line 42 on, once hist_data is settled
Finish_mut_no_check(code, info, hist) ==
    LET price == _process_price_data(hist)
        fin == _calculate_financial_metrics_safe(info, price.current_price)
    IN  [price_data |-> <<price>>, financial_data |-> <<fin>>,
         result |-> <<[stock_code |-> code,
                       price |-> price.current_price,
                       change |-> price.price_change,
                       change_percent |-> price.change_percent,
                       volume |-> price.volume,
                       market_cap |-> Get(info, "marketCap", 0),
                       per |-> fin.per, pbr |-> fin.pbr,
                       roe |-> fin.roe, dividend |-> fin.dividend,
                       data_quality |-> IF hist # EmptyFrame THEN "good"
                                        ELSE "limited"]>>,
         error |-> <<>>]

Finish(code, info, hist) ==
    IF hist = EmptyFrame
    THEN [price_data |-> <<>>, financial_data |-> <<>>, result |-> <<>>,
          error |-> <<WrapError(code, NoDataError(code))>>]
    ELSE LET price == _process_price_data(hist)
             fin == _calculate_financial_metrics_safe(info,
                                                      price.current_price)
         IN  [price_data |-> <<price>>, financial_data |-> <<fin>>,
              result |-> <<[stock_code |-> code,
                            price |-> price.current_price,
                            change |-> price.price_change,
                            change_percent |-> price.change_percent,
                            volume |-> price.volume,
                            market_cap |-> Get(info, "marketCap", 0),
                            per |-> fin.per, pbr |-> fin.pbr,
                            roe |-> fin.roe, dividend |-> fin.dividend,
                            data_quality |-> IF hist # EmptyFrame THEN "good"
                                             ELSE "limited"]>>,
              error |-> <<>>]

----------------------------------------------------------------------------
(* What the provider can answer *)

StockCodes == {"0000", "7203"}

\* str(e) of the exceptions stock.history(period="1y") can raise; the
\* exceptions of the other calls are logged and dropped
ErrIds == {"timeout", "rate limited"}

InfoFull ==
    [trailingPE |-> 15237, trailingEps |-> 10000, priceToBook |-> 1200,
     bookValue |-> 80000, returnOnEquity |-> 12345, dividendYield |-> 3000,
     marketCap |-> 5000]

ProviderInfos == {InfoFull}

ProviderBars == {[Close |-> 100004, Volume |-> 1200],
                 [Close |-> 105000, Volume |-> 0]}

\* the series over a set of bars, the empty one included
SeriesOver(bars) == UNION {[1..n -> bars] : n \in 0..MaxBars}

ProviderSeries == SeriesOver(ProviderBars)

----------------------------------------------------------------------------
(* The log of the calls made so far, in order *)

Ev(op, period, att, out, data, err, wait) ==
    [op |-> op, period |-> period, attempt |-> att, out |-> out,
     data |-> data, err |-> err, wait |-> wait]

InfoEv(att, out) == Ev("info", "", att, out, EmptyFrame, "", 0)

HistEv(period, att, out, data, err) ==
    Ev("history", period, att, out, data, err, 0)

SleepEv(att, wait) == Ev("sleep", "", att, "ok", EmptyFrame, "", wait)

OutOf(hist) == IF hist = EmptyFrame THEN "empty" ELSE "data"

----------------------------------------------------------------------------
(* get_stock_data *)

Init ==
    /\ stock_code \in StockCodes
    /\ pc = "retry_info"
    /\ attempt = 0
    /\ period_idx = 1
    /\ stock_info = EmptyInfo
    /\ hist_data = EmptyFrame
    /\ retry_status = "running"
    /\ retry_exc = <<>>
    /\ log = <<>>
    /\ price_data = <<>>
    /\ financial_data = <<>>
    /\ result = <<>>
    /\ error = <<>>

\* get_stock_data ends: it returns result or raises error (lines 42-75)
Done(f) ==
    /\ pc' = IF f.error = <<>> THEN "returned" ELSE "failed"
    /\ price_data' = f.price_data
    /\ financial_data' = f.financial_data
    /\ result' = f.result
    /\ error' = f.error

\* _fetch_with_retry returns (info, hist) to line 35; lines 37-42 follow
RetryReturns(info, hist, status) ==
    /\ retry_status' = status
    /\ stock_info' = info
    /\ hist_data' = hist
    /\ UNCHANGED <<retry_exc, period_idx>>
    /\ IF hist = EmptyFrame
       THEN /\ pc' = "fallback"
            /\ UNCHANGED <<price_data, financial_data, result, error>>
       ELSE Done(Finish(stock_code, info, hist))

\* the condition of line 99
ShouldReturn_mut_nonempty_only(hist, att) == hist # EmptyFrame

ShouldReturn(hist, att) == hist # EmptyFrame \/ att = max_retries - 1

\* the for statement of line 81 takes the next value of range(max_retries),
\* or the loop ends and line 113 returns the defaults
LoopContinue(hist) ==
    IF attempt + 1 < max_retries
    THEN /\ attempt' = attempt + 1
         /\ pc' = "retry_info"
         /\ hist_data' = hist
         /\ UNCHANGED <<stock_info, retry_status, retry_exc, period_idx,
                        price_data, financial_data, result, error>>
    ELSE /\ attempt' = attempt
         /\ RetryReturns(EmptyInfo, EmptyFrame, "default")

\* lines 89-91: stock.info returns the metadata
InfoReturns ==
    /\ pc = "retry_info"
    /\ \E info \in ProviderInfos :
          /\ stock_info' = info
          /\ log' = Append(log, InfoEv(attempt, "ok"))
    /\ pc' = "retry_hist"
    /\ UNCHANGED <<stock_code, attempt, period_idx, hist_data, retry_status,
                   retry_exc, price_data, financial_data, result, error>>

\* lines 92-94: stock.info raises, the error is logged and dropped
InfoRaises_mut_propagates ==
    /\ pc = "retry_info"
    /\ log' = Append(log, InfoEv(attempt, "raise"))
    /\ stock_info' = EmptyInfo
    /\ IF attempt < max_retries - 1
       THEN /\ pc' = "retry_sleep"
            /\ UNCHANGED <<retry_status, retry_exc, error>>
       ELSE /\ pc' = "failed"
            /\ retry_status' = "raised"
            /\ retry_exc' = <<ProviderError("metadata")>>
            /\ error' = <<WrapError(stock_code, ProviderError("metadata"))>>
    /\ UNCHANGED <<stock_code, attempt, period_idx, hist_data, price_data,
                   financial_data, result>>

InfoRaises ==
    /\ pc = "retry_info"
    /\ log' = Append(log, InfoEv(attempt, "raise"))
    /\ stock_info' = EmptyInfo
    /\ pc' = "retry_hist"
    /\ UNCHANGED <<stock_code, attempt, period_idx, hist_data, retry_status,
                   retry_exc, price_data, financial_data, result, error>>

\* lines 97-100: stock.history(period="1y") returns a series
HistoryReturns ==
    /\ pc = "retry_hist"
    /\ \E hist \in ProviderSeries :
          /\ log' = Append(log, HistEv("1y", attempt, OutOf(hist), hist, ""))
          /\ IF ShouldReturn(hist, attempt)
             THEN /\ attempt' = attempt
                  /\ RetryReturns(stock_info, hist, "returned")
             ELSE LoopContinue(hist)
    /\ UNCHANGED stock_code

\* the delay of line 107, in units of 1/JitterSteps seconds
wait_time(att, jitter) == base_delay * Pow2(att) * JitterSteps + jitter

\* lines 97, 102-111: stock.history(period="1y") raises
HistoryRaises_mut_no_retry ==
    /\ pc = "retry_hist"
    /\ \E id \in ErrIds :
          /\ log' = Append(log, HistEv("1y", attempt, "raise", EmptyFrame, id))
          /\ pc' = "failed"
          /\ retry_status' = "raised"
          /\ retry_exc' = <<ProviderError(id)>>
          /\ error' = <<WrapError(stock_code, ProviderError(id))>>
    /\ UNCHANGED <<stock_code, attempt, period_idx, stock_info, hist_data,
                   price_data, financial_data, result>>

HistoryRaises_mut_swallow_last ==
    /\ pc = "retry_hist"
    /\ \E id \in ErrIds :
          /\ log' = Append(log, HistEv("1y", attempt, "raise", EmptyFrame, id))
          /\ IF attempt < max_retries - 1
             THEN /\ pc' = "retry_sleep"
                  /\ UNCHANGED <<attempt, period_idx, stock_info, hist_data,
                                 retry_status, retry_exc, price_data,
                                 financial_data, result, error>>
             ELSE LoopContinue(hist_data)
    /\ UNCHANGED stock_code

HistoryRaises ==
    /\ pc = "retry_hist"
    /\ \E id \in ErrIds :
          /\ log' = Append(log, HistEv("1y", attempt, "raise", EmptyFrame, id))
          /\ IF attempt < max_retries - 1
             THEN /\ pc' = "retry_sleep"
                  /\ UNCHANGED <<retry_status, retry_exc, error>>
             ELSE /\ pc' = "failed"
                  /\ retry_status' = "raised"
                  /\ retry_exc' = <<ProviderError(id)>>
                  /\ error' = <<WrapError(stock_code, ProviderError(id))>>
    /\ UNCHANGED <<stock_code, attempt, period_idx, stock_info, hist_data,
                   price_data, financial_data, result>>

\* lines 107-109: time.sleep(wait_time), then the next iteration
Sleep ==
    /\ pc = "retry_sleep"
    /\ \E jitter \in 0..JitterSteps :
          log' = Append(log, SleepEv(attempt, wait_time(attempt, jitter)))
    /\ LoopContinue(hist_data)
    /\ UNCHANGED stock_code

\* the for statement of line 121 takes the next period, or line 135 returns
\* the empty frame to line 40 and line 42 raises
FallbackContinue ==
    IF period_idx < Len(periods)
    THEN /\ period_idx' = period_idx + 1
         /\ UNCHANGED <<pc, hist_data, price_data, financial_data, result,
                        error>>
    ELSE /\ hist_data' = EmptyFrame
         /\ Done(Finish(stock_code, stock_info, EmptyFrame))
         /\ UNCHANGED period_idx

\* lines 124-129: stock.history(period=period) returns a series
FallbackReturns ==
    /\ pc = "fallback"
    /\ \E hist \in ProviderSeries :
          /\ log' = Append(log, HistEv(periods[period_idx], attempt,
                                       OutOf(hist), hist, ""))
          /\ IF hist # EmptyFrame
             THEN /\ hist_data' = hist
                  /\ Done(Finish(stock_code, stock_info, hist))
                  /\ UNCHANGED period_idx
             ELSE FallbackContinue
    /\ UNCHANGED <<stock_code, attempt, stock_info, retry_status, retry_exc>>

\* lines 125, 131-133: stock.history(period=period) raises
FallbackRaises ==
    /\ pc = "fallback"
    /\ log' = Append(log, HistEv(periods[period_idx], attempt, "raise",
                                 EmptyFrame, ""))
    /\ FallbackContinue
    /\ UNCHANGED <<stock_code, attempt, stock_info, retry_status, retry_exc>>

Next ==
    \/ InfoReturns
    \/ InfoRaises
    \/ HistoryReturns
    \/ HistoryRaises
    \/ Sleep
    \/ FallbackReturns
    \/ FallbackRaises

Spec == Init /\ [][Next]_vars

\* every provider call and every sleep comes back, so the routine keeps going
LiveSpec == Spec /\ WF_vars(Next)

----------------------------------------------------------------------------
(* Readings of the log used by the properties *)

Is1y(e) == e.op = "history" /\ e.period = "1y"

IsFallback(e) == e.op = "history" /\ e.period # "1y"

IsInfo(e) == e.op = "info"

IsSleep(e) == e.op = "sleep"

Hist1y == SelectSeq(log, Is1y)

Fb == SelectSeq(log, IsFallback)

Infos == SelectSeq(log, IsInfo)

Sleeps == SelectSeq(log, IsSleep)

Terminated == pc \in {"returned", "failed"}

Last(s) == s[Len(s)]

----------------------------------------------------------------------------
\* C1: the fallback routine queries 6mo, 3mo, 1mo, 5d in this order, each at
\* most once; the first window with a non-empty result ends it and its data
\* is the data used, no later window being queried; a window that raises
\* counts as an empty one; when no window has data the series stays empty and
\* the routine itself raises nothing (get_stock_data then reports no data).
C1_FallbackOrder ==
    /\ Len(Fb) <= 4
    /\ \A i \in 1..Len(Fb) :
          /\ Fb[i].period = <<"6mo", "3mo", "1mo", "5d">>[i]
          /\ i < Len(Fb) => Fb[i].out \in {"empty", "raise"}
    /\ (Fb # <<>> /\ Last(Fb).out = "data") =>
          /\ Last(log) = Last(Fb)
          /\ pc = "returned"
          /\ hist_data = Last(Fb).data
    /\ (Fb # <<>> /\ Last(Fb).out # "data" /\ Len(Fb) < 4) =>
          /\ pc = "fallback"
          /\ error = <<>>
    /\ (Len(Fb) = 4 /\ Last(Fb).out # "data") =>
          /\ hist_data = EmptyFrame
          /\ error = <<WrapError(stock_code, NoDataError(stock_code))>>

\* empty 6mo and 3mo, data for 1mo: the 1mo data is used, 5d is not queried
C1_Witness ==
    /\ Len(Fb) = 3
    /\ Fb[1].out = "empty"
    /\ Fb[2].out = "empty"
    /\ Fb[3].out = "data"
    /\ pc = "returned"

\* C2: _fetch_with_retry returns at the first attempt whose 1y history is
\* non-empty and calls the provider no more; otherwise it returns when the
\* history call of the third attempt comes back without raising, empty or
\* not; an empty series at attempt 1 or 2 does not make it return.
C2_ReturnPoint ==
    /\ \A k \in 1..Len(log) :
          Is1y(log[k]) =>
             /\ log[k].out = "data" =>
                   /\ k = Len(log)
                   /\ retry_status = "returned"
                   /\ attempt = log[k].attempt
                   /\ hist_data = log[k].data
             /\ (log[k].out = "empty" /\ log[k].attempt = 2) =>
                   /\ retry_status = "returned"
                   /\ attempt = 2
                   /\ k < Len(log) => IsFallback(log[k + 1])
             /\ (log[k].out = "empty" /\ log[k].attempt < 2) =>
                   IF k = Len(log)
                   THEN retry_status = "running" /\ pc = "retry_info"
                   ELSE IsInfo(log[k + 1])
                        /\ log[k + 1].attempt = log[k].attempt + 1
    /\ retry_status = "returned" =>
          /\ Hist1y # <<>>
          /\ Last(Hist1y).attempt = attempt
          /\ \/ Last(Hist1y).out = "data"
             \/ Last(Hist1y).out = "empty" /\ attempt = 2

\* the third attempt came back empty and the routine returned the empty series
C2_Witness ==
    /\ retry_status = "returned"
    /\ attempt = 2
    /\ hist_data = EmptyFrame
    /\ pc = "fallback"

\* C3: there are at most 3 attempts, hence at most 3 calls of the 1y history;
\* an error raised by attempt 1 or 2 does not leave _fetch_with_retry; when
\* the routine raises, every attempt has raised and the error is the one of
\* the third attempt.
C3_ThirdErrorPropagates ==
    /\ Len(Hist1y) <= 3
    /\ \A i \in 1..Len(Hist1y) : Hist1y[i].attempt = i - 1
    /\ \A k \in 1..Len(log) :
          (Is1y(log[k]) /\ log[k].out = "raise" /\ log[k].attempt < 2) =>
             IF k = Len(log)
             THEN retry_status = "running" /\ retry_exc = <<>> /\ error = <<>>
             ELSE retry_exc # <<ProviderError(log[k].err)>>
                  \/ Last(Hist1y).err = log[k].err
    /\ retry_status = "raised" =>
          /\ Len(Hist1y) = 3
          /\ Last(Hist1y).out = "raise"
          /\ Last(log) = Last(Hist1y)
          /\ retry_exc = <<ProviderError(Last(Hist1y).err)>>
          /\ pc = "failed"
    /\ (Len(Hist1y) = 3 /\ \A i \in 1..3 : Hist1y[i].out = "raise") =>
          /\ retry_status = "raised"
          /\ retry_exc = <<ProviderError(Hist1y[3].err)>>

\* every attempt raised, the third with another error than the first two
C3_Witness ==
    /\ retry_status = "raised"
    /\ Len(Hist1y) = 3
    /\ Hist1y[1].err = "timeout"
    /\ Hist1y[2].err = "timeout"
    /\ Hist1y[3].err = "rate limited"
    /\ retry_exc = <<ProviderError("rate limited")>>

\* C4: between attempts i and i+1 (i in {0, 1}) the routine sleeps
\* base_delay * 2^i + jitter seconds, jitter in [0, 1], whether the history
\* call of attempt i raised or came back empty; there is no sleep before the
\* first attempt and none after the last.
C4_SleepBetweenAttempts ==
    /\ \A k \in 1..Len(log) :
          (IsInfo(log[k]) /\ log[k].attempt > 0) =>
             /\ IsSleep(log[k - 1])
             /\ log[k - 1].attempt = log[k].attempt - 1
             /\ log[k - 1].wait >= 2 * Pow2(log[k - 1].attempt) * JitterSteps
             /\ log[k - 1].wait <=
                   (2 * Pow2(log[k - 1].attempt) + 1) * JitterSteps
    /\ \A k \in 1..Len(log) :
          IsSleep(log[k]) =>
             /\ log[k].attempt < 2
             /\ k > 1
             /\ Is1y(log[k - 1])

\* C5: get_stock_data returns a report only when the series it used is not
\* empty, the snapshot of the report being computed from the last bar of that
\* series and never being the all-zero snapshot that _process_price_data
\* gives for the empty series; when the retry
\* loop returned an empty series and every fallback window was empty or
\* raised, it raises an error whose message contains the requested code.
C5_NoReportWithoutData ==
    /\ (pc = "returned") = (result # <<>>)
    /\ result # <<>> =>
          /\ hist_data # EmptyFrame
          /\ error = <<>>
          /\ result[1].stock_code = stock_code
          /\ result[1].price = Round2(Last(hist_data).Close, 1000)
          /\ result[1].volume = Last(hist_data).Volume
    /\ (Len(Fb) = 4 /\ Last(Fb).out # "data") =>
          /\ pc = "failed"
          /\ result = <<>>
          /\ Len(error) = 1
          /\ \E i \in 1..Len(error[1].msg) : error[1].msg[i] = stock_code

\* every window came back empty for code 0000
C5_Witness ==
    /\ stock_code = "0000"
    /\ Len(Hist1y) = 3
    /\ \A i \in 1..3 : Hist1y[i].out = "empty"
    /\ Len(Fb) = 4
    /\ \A i \in 1..4 : Fb[i].out = "empty"
    /\ pc = "failed"

\* C6: a metadata failure is swallowed inside the attempt: the 1y history
\* call of the same attempt follows it, no sleep and no further attempt comes
\* from it, and the metadata returned with that attempt is the empty map;
\* whether get_stock_data ends with a report or an error is decided by the
\* outcomes of the history calls alone.
C6_MetadataNotFatal ==
    /\ \A k \in 1..Len(log) :
          (IsInfo(log[k]) /\ log[k].out = "raise") =>
             IF k = Len(log)
             THEN /\ pc = "retry_hist"
                  /\ stock_info = EmptyInfo
                  /\ retry_status = "running"
                  /\ error = <<>>
             ELSE /\ Is1y(log[k + 1])
                  /\ log[k + 1].attempt = log[k].attempt
    /\ \A k \in 1..Len(log) :
          IsSleep(log[k]) => k > 1 /\ Is1y(log[k - 1]) /\ log[k - 1].out = "raise"
    /\ Len(Infos) <= 3
    /\ \A i \in 1..Len(Infos) : Infos[i].attempt = i - 1
    /\ retry_status = "returned" =>
          stock_info = IF Last(Infos).out = "raise" THEN EmptyInfo
                       ELSE InfoFull
    /\ Terminated =>
          /\ (pc = "returned") = (Last(SelectSeq(log, LAMBDA e : e.op = "history")).out = "data")
          /\ (pc = "failed") = (Last(SelectSeq(log, LAMBDA e : e.op = "history")).out # "data")

\* the metadata call of the first attempt raised, its history call was made
\* and had data, and the report was built from the empty map
C6_Witness ==
    /\ Len(log) = 2
    /\ IsInfo(log[1]) /\ log[1].out = "raise"
    /\ Is1y(log[2]) /\ log[2].out = "data"
    /\ stock_info = EmptyInfo
    /\ pc = "returned"
    /\ result # <<>>

\* C10: every invocation of get_stock_data ends, with a report or an error,
\* after at most 3 calls of the 1y history, 2 sleeps and 4 fallback calls;
\* the fallback windows are queried only after the retry loop returned an
\* empty series, so none is queried when the third attempt raises; the
\* default return after the loop of _fetch_with_retry is never reached.
C10_Bounded ==
    /\ Len(Hist1y) <= 3
    /\ Len(Sleeps) <= 2
    /\ Len(Fb) <= 4
    /\ Fb # <<>> => retry_status = "returned" /\ Last(Hist1y).out = "empty"
    /\ retry_status = "raised" => Fb = <<>> /\ pc = "failed" /\ result = <<>>
    /\ retry_status # "default"
    /\ Terminated => (result # <<>>) # (error # <<>>)

C10_Terminates == <>Terminated /\ []C10_Bounded

\* the third attempt raised: the request failed and no window was queried
C10_Witness ==
    /\ retry_status = "raised"
    /\ Len(Hist1y) = 3
    /\ Len(Sleeps) = 2
    /\ Fb = <<>>
    /\ pc = "failed"

----------------------------------------------------------------------------
(* _process_price_data on its own: any series of at most MaxBars bars *)

TestCloses == {0, 4, 99996, 100000, 100004, 105000}

TestBars == [Close : TestCloses, Volume : {0, 1200}]

SnapshotInit ==
    /\ stock_code = "7203"
    /\ pc = "snapshot"
    /\ attempt = 0
    /\ period_idx = 1
    /\ stock_info = EmptyInfo
    /\ hist_data \in SeriesOver(TestBars)
    /\ retry_status = "returned"
    /\ retry_exc = <<>>
    /\ log = <<>>
    /\ price_data = <<>>
    /\ financial_data = <<>>
    /\ result = <<>>
    /\ error = <<>>

\* line 46 without the guard of line 42
SnapshotCall ==
    /\ pc = "snapshot"
    /\ price_data' = <<_process_price_data(hist_data)>>
    /\ pc' = "snapshot_done"
    /\ UNCHANGED <<stock_code, attempt, period_idx, stock_info, hist_data,
                   retry_status, retry_exc, log, financial_data, result,
                   error>>

SnapshotNext == SnapshotCall

SnapshotSpec == SnapshotInit /\ [][SnapshotNext]_vars

Abs(x) == IF x < 0 THEN -x ELSE x

\* the closes of the last and of the second-to-last bar, in thousandths
LatestClose == hist_data[Len(hist_data)].Close

PriorClose == hist_data[Len(hist_data) - 1].Close

\* C9 as stated: for a series of 2 or more bars, change is
\* round(latest.close - prior.close, 2) on the unrounded closes,
\* changePercent is round(change / prior.close * 100, 2), and changePercent
\* is 0 exactly when prior.close is 0.
C9_Original ==
    (pc = "snapshot_done" /\ Len(hist_data) >= 2) =>
       LET change == RoundHalfEven(100 * (LatestClose - PriorClose), 1000)
       IN  /\ price_data[1].price_change = change
           /\ PriorClose > 0 =>
                 price_data[1].change_percent =
                    RoundHalfEven(100000 * change, PriorClose)
           /\ (price_data[1].change_percent = 0) = (PriorClose = 0)

\* C9 as amended: for a series of 2 or more bars, with current and previous
\* the closes of the last two bars each rounded to 2 decimals, change is
\* current - previous, changePercent is change / previous * 100 rounded to
\* the nearest hundredth when previous > 0, and changePercent is 0 when
\* previous is 0.
C9_RoundedCloses ==
    (pc = "snapshot_done" /\ Len(hist_data) >= 2) =>
       LET current == price_data[1].current_price
           previous == RoundHalfEven(100 * PriorClose, 1000)
           change == price_data[1].price_change
           percent == price_data[1].change_percent
       IN  /\ 2 * Abs(10 * current - LatestClose) <= 10
           /\ change = current - previous
           /\ previous > 0 =>
                 2 * Abs(percent * previous - 10000 * change) <= previous
           /\ previous = 0 => percent = 0

\* closes 99.996 then 100.004: both round to 100.00 and the change is 0.00,
\* where the unrounded difference 0.008 rounds to 0.01
C9_Witness ==
    /\ pc = "snapshot_done"
    /\ Len(hist_data) = 2
    /\ PriorClose = 99996
    /\ LatestClose = 100004
    /\ price_data[1].price_change = 0
    /\ price_data[1].change_percent = 0

----------------------------------------------------------------------------
(* _calculate_financial_metrics_safe on its own: any metadata, any price *)

RatioValues == {None, -2500, 0, 10000, 15237}

FractionValues == {None, -5000, 0, 12346}

TestPrices == {0, 15000, 15001}

TestInfos ==
    {EmptyInfo} \cup
    [trailingPE : RatioValues, trailingEps : RatioValues,
     priceToBook : RatioValues, bookValue : RatioValues,
     returnOnEquity : FractionValues, dividendYield : FractionValues]

MetricsInit ==
    /\ stock_code = "7203"
    /\ pc = "metrics"
    /\ attempt = 0
    /\ period_idx = 1
    /\ stock_info \in TestInfos
    /\ hist_data = EmptyFrame
    /\ retry_status = "returned"
    /\ retry_exc = <<>>
    /\ log = <<>>
    /\ \E p \in TestPrices :
          price_data = <<[current_price |-> p, price_change |-> 0,
                          change_percent |-> 0, volume |-> 0]>>
    /\ financial_data = <<>>
    /\ result = <<>>
    /\ error = <<>>

\* line 49
MetricsCall ==
    /\ pc = "metrics"
    /\ financial_data' =
          <<_calculate_financial_metrics_safe(stock_info,
                                              price_data[1].current_price)>>
    /\ pc' = "metrics_done"
    /\ UNCHANGED <<stock_code, attempt, period_idx, stock_info, hist_data,
                   retry_status, retry_exc, log, price_data, result, error>>

MetricsNext == MetricsCall

MetricsSpec == MetricsInit /\ [][MetricsNext]_vars

\* a metadata field is positive: present, not None, and > 0
Positive(key) ==
    /\ key \in DOMAIN stock_info
    /\ stock_info[key] # None
    /\ stock_info[key] > 0

\* a metadata field is absent: missing or None
Absent(key) == key \notin DOMAIN stock_info \/ stock_info[key] = None

\* the ratio metric m is exactly the direct field if that is positive, else
\* exactly price / denominator if the denominator is positive, else 0
ExactRatio(m, direct_key, denom_key) ==
    IF Positive(direct_key)
    THEN 10 * m = stock_info[direct_key]
    ELSE IF Positive(denom_key)
         THEN m * stock_info[denom_key] = 1000 * price_data[1].current_price
         ELSE m = 0

\* the same, with the value rounded to the nearest hundredth
RoundedRatio(m, direct_key, denom_key) ==
    IF Positive(direct_key)
    THEN 2 * Abs(10 * m - stock_info[direct_key]) <= 10
    ELSE IF Positive(denom_key)
         THEN 2 * Abs(m * stock_info[denom_key]
                      - 1000 * price_data[1].current_price)
                 <= stock_info[denom_key]
         ELSE m = 0

\* C7 as stated: per is the trailing P/E if positive, else currentPrice /
\* trailingEps if the EPS is positive, else 0; pbr likewise from priceToBook
\* and bookValue; with no positive direct ratio and no positive denominator
\* the result is 0.
C7_Original ==
    pc = "metrics_done" =>
       /\ ExactRatio(financial_data[1].per, "trailingPE", "trailingEps")
       /\ ExactRatio(financial_data[1].pbr, "priceToBook", "bookValue")

\* C7 as amended: per is the trailing P/E rounded to 2 decimals if positive,
\* else currentPrice / trailingEps rounded to 2 decimals if the EPS is
\* positive, else 0; pbr likewise from priceToBook and bookValue; with no
\* positive direct ratio and no positive denominator the result is 0.
C7_RoundedRatios ==
    pc = "metrics_done" =>
       /\ RoundedRatio(financial_data[1].per, "trailingPE", "trailingEps")
       /\ RoundedRatio(financial_data[1].pbr, "priceToBook", "bookValue")
       /\ (~Positive("trailingPE") /\ ~Positive("trailingEps")) =>
             financial_data[1].per = 0
       /\ (~Positive("priceToBook") /\ ~Positive("bookValue")) =>
             financial_data[1].pbr = 0

\* trailingPE 0, trailingEps 10, price 150: per is 15.00
C7_Witness ==
    /\ pc = "metrics_done"
    /\ stock_info # EmptyInfo
    /\ stock_info["trailingPE"] = 0
    /\ stock_info["trailingEps"] = 10000
    /\ price_data[1].current_price = 15000
    /\ financial_data[1].per = 1500

NeverNone ==
    /\ financial_data[1].per # None
    /\ financial_data[1].pbr # None
    /\ financial_data[1].roe # None
    /\ financial_data[1].dividend # None

\* C8 as stated: no metric is null; each is 0 when its source fields are
\* absent or non-positive; roe and dividendYield are 0 when the fraction is
\* absent, zero or negative and the fraction times 100 otherwise.
C8_Original ==
    pc = "metrics_done" =>
       /\ NeverNone
       /\ (~Positive("trailingPE") /\ ~Positive("trailingEps")) =>
             financial_data[1].per = 0
       /\ (~Positive("priceToBook") /\ ~Positive("bookValue")) =>
             financial_data[1].pbr = 0
       /\ IF Positive("returnOnEquity")
          THEN 10 * financial_data[1].roe = stock_info["returnOnEquity"]
          ELSE financial_data[1].roe = 0
       /\ IF Positive("dividendYield")
          THEN 10 * financial_data[1].dividend = stock_info["dividendYield"]
          ELSE financial_data[1].dividend = 0

\* the percent metric m is 0 when the fraction is absent or zero and the
\* fraction times 100 rounded to the nearest hundredth otherwise
RoundedPercent(m, key) ==
    IF Absent(key) \/ stock_info[key] = 0
    THEN m = 0
    ELSE 2 * Abs(10 * m - stock_info[key]) <= 10

\* C8 as amended: no metric is null; per and pbr are 0 when their source
\* fields are absent or non-positive; roe and dividendYield are 0 when the
\* fraction is absent or zero, and the fraction times 100 rounded to 2
\* decimals otherwise, a negative fraction giving a negative value.
C8_RoundedPercents ==
    pc = "metrics_done" =>
       /\ NeverNone
       /\ (~Positive("trailingPE") /\ ~Positive("trailingEps")) =>
             financial_data[1].per = 0
       /\ (~Positive("priceToBook") /\ ~Positive("bookValue")) =>
             financial_data[1].pbr = 0
       /\ RoundedPercent(financial_data[1].roe, "returnOnEquity")
       /\ RoundedPercent(financial_data[1].dividend, "dividendYield")

\* returnOnEquity -0.05 gives roe -5.00, an absent dividendYield gives 0
C8_Witness ==
    /\ pc = "metrics_done"
    /\ stock_info # EmptyInfo
    /\ stock_info["returnOnEquity"] = -5000
    /\ financial_data[1].roe = -500
    /\ stock_info["dividendYield"] = None
    /\ financial_data[1].dividend = 0

====
